---- MODULE Spec2Model ----
(***************************************************************************)
(* Model of generate_gallery.py (class GalleryGenerator).                  *)
(*                                                                         *)
(* Text is modelled as a sequence of one-character strings, so that the    *)
(* regular expressions, str.strip, str.lower, the substring test and the   *)
(* ordering of paths are computed character by character as Python does.   *)
(* A character TLA+ strings cannot hold is written by its code point       *)
(* ("U+0060" is the backtick, "U+4EE3" a CJK character).                   *)
(***************************************************************************)
EXTENDS Integers, Sequences, FiniteSets, TLC

VARIABLES
    tag, lines, md_file, description, code, pc,          \* extraction of one file
    dname, lang, dpc,                                    \* detect_language
    dir_name, dir_exists, files, unreadable, listing,    \* category directory
    items, html_content, pages_dir, pages, diag, gpc \* generate_page

vars == << tag, lines, md_file, description, code, pc,
           dname, lang, dpc,
           dir_name, dir_exists, files, unreadable, listing,
           items, html_content, pages_dir, pages, diag, gpc >>

extractVars == << tag, lines, md_file, description, code, pc >>
detectVars  == << dname, lang, dpc >>
galleryVars == << dir_name, dir_exists, files, unreadable, listing,
                  items, html_content, pages_dir, pages, diag, gpc >>

(***************************************************************************)
(* Bounds of the explored inputs.                                          *)
(***************************************************************************)
MaxLines == 5
MaxNameTokens == 3
MaxFiles == 4

(***************************************************************************)
(* Characters and strings.                                                 *)
(***************************************************************************)
Min(S) == CHOOSE m \in S : \A n \in S : m <= n
Max(S) == CHOOSE m \in S : \A n \in S : m >= n

RECURSIVE Flatten(_)
Flatten(ss) == IF ss = << >> THEN << >> ELSE Head(ss) \o Flatten(Tail(ss))

\* the characters the regular expressions' \s class matches
WhiteSpace == {" ", "\t", "\n", "\r"}

\* "代码示例"
FALLBACK == << "U+4EE3", "U+7801", "U+793A", "U+4F8B" >>

\* the literal ``` of both patterns
FENCE == << "U+0060", "U+0060", "U+0060" >>

\* pattern (?:r|R|python|Python), alternatives in their order
LangTagsLowerOnly == << <<"r">>, <<"p","y","t","h","o","n">> >>
LangTags == << <<"r">>, <<"R">>,
               <<"p","y","t","h","o","n">>, <<"P","y","t","h","o","n">> >>

\* s has pat at position i (1-based)
StartsWithAt(s, i, pat) ==
    /\ i >= 1
    /\ i + Len(pat) - 1 <= Len(s)
    /\ \A k \in 1..Len(pat) : s[i + k - 1] = pat[k]

\* length of the longest run of \s characters of s that starts at j
WsRun(s, j) ==
    Max({k \in 0..(Len(s) - j + 1) : \A m \in j..(j + k - 1) : s[m] \in WhiteSpace})

\* str.strip()
Strip(s) ==
    LET keep == {i \in 1..Len(s) : s[i] \notin WhiteSpace}
    IN  IF keep = {} THEN << >> ELSE SubSeq(s, Min(keep), Max(keep))

NoMatch == [ok |-> FALSE, g |-> << >>]
Match(g) == [ok |-> TRUE, g |-> g]

\* of the attempts <<k, result>>, the successful one the matcher reaches
\* first: the least k for a search position or an alternative, the greatest
\* k for a greedy repetition
Earliest(rs) ==
    IF \A r \in rs : ~r[2].ok THEN NoMatch
    ELSE (CHOOSE r \in rs : r[2].ok /\ \A q \in rs : q[2].ok => r[1] <= q[1])[2]
Longest(rs) ==
    IF \A r \in rs : ~r[2].ok THEN NoMatch
    ELSE (CHOOSE r \in rs : r[2].ok /\ \A q \in rs : q[2].ok => r[1] >= q[1])[2]

(***************************************************************************)
(* extract_description_from_md: ```(?:r|R|python|Python)\s*\n#\s*(.+?)\n   *)
(***************************************************************************)
\* (.+?)\n at p: '.' does not match a newline, the group is lazy
LazyLine(s, p) ==
    IF p <= Len(s) /\ s[p] # "\n" /\ \E q \in (p + 1)..Len(s) : s[q] = "\n"
    THEN Match(SubSeq(s, p, Min({q \in (p + 1)..Len(s) : s[q] = "\n"}) - 1))
    ELSE NoMatch

\* \s*(.+?)\n at h: \s* is greedy and gives characters back on failure
CommentTail(s, h) ==
    Longest({<<k, LazyLine(s, h + k)>> : k \in 0..WsRun(s, h)})

\* \s*\n#\s*(.+?)\n at j
DescTail(s, j) ==
    Longest({<<k, IF j + k + 1 <= Len(s) /\ s[j + k] = "\n" /\ s[j + k + 1] = "#"
                  THEN CommentTail(s, j + k + 2)
                  ELSE NoMatch>> : k \in 0..WsRun(s, j)})

\* the whole pattern anchored at i
DescAt(s, i) ==
    Earliest({<<n, IF StartsWithAt(s, i, FENCE \o LangTags[n])
                   THEN DescTail(s, i + 3 + Len(LangTags[n]))
                   ELSE NoMatch>> : n \in 1..Len(LangTags)})

\* re.search: the leftmost position at which the pattern matches
comment_match(s) == Earliest({<<i, DescAt(s, i)>> : i \in 1..Len(s)})

\* lines 42-46
DescriptionOf(m) == IF m.ok THEN Strip(m.g) ELSE FALLBACK

\* the function's result: the value returned, whether the warning was
\* printed, whether an exception left the function
extract_description_without_try(f) ==
    IF ~f.readable
    THEN [ret |-> << >>, warned |-> FALSE, raised |-> TRUE]
    ELSE [ret |-> DescriptionOf(comment_match(f.text)), warned |-> FALSE, raised |-> FALSE]

extract_description_from_md(f) ==
    IF ~f.readable
    THEN [ret |-> FALLBACK, warned |-> TRUE, raised |-> FALSE]
    ELSE [ret |-> DescriptionOf(comment_match(f.text)), warned |-> FALSE, raised |-> FALSE]

(***************************************************************************)
(* extract_code_from_md: ```(?:r|R|python|Python)\s*\n(.*?)\n``` (DOTALL)  *)
(***************************************************************************)
\* (.*?)\n``` at p: '.' matches every character, the group is lazy
LazyBody(s, p) ==
    IF \E q \in p..Len(s) : s[q] = "\n" /\ StartsWithAt(s, q + 1, FENCE)
    THEN Match(SubSeq(s, p,
             Min({q \in p..Len(s) : s[q] = "\n" /\ StartsWithAt(s, q + 1, FENCE)}) - 1))
    ELSE NoMatch

\* \s*\n(.*?)\n``` at j
CodeTail(s, j) ==
    Longest({<<k, IF j + k <= Len(s) /\ s[j + k] = "\n"
                  THEN LazyBody(s, j + k + 1)
                  ELSE NoMatch>> : k \in 0..WsRun(s, j)})

CodeAt(s, i) ==
    Earliest({<<n, IF StartsWithAt(s, i, FENCE \o LangTags[n])
                   THEN CodeTail(s, i + 3 + Len(LangTags[n]))
                   ELSE NoMatch>> : n \in 1..Len(LangTags)})

code_match(s) == Earliest({<<i, CodeAt(s, i)>> : i \in 1..Len(s)})

\* lines 68-71
CodeOf(m) == IF m.ok THEN Strip(m.g) ELSE << >>

extract_code_from_md(f) ==
    IF ~f.readable
    THEN [ret |-> << >>, warned |-> TRUE, raised |-> FALSE]
    ELSE [ret |-> CodeOf(code_match(f.text)), warned |-> FALSE, raised |-> FALSE]

(***************************************************************************)
(* The documentation files explored: a file is a sequence of lines, each   *)
(* ended by a newline; every opening fence of one file carries the same    *)
(* language tag.                                                           *)
(***************************************************************************)
LineKinds == {"open", "fence", "comment", "hash", "stmt", "blank"}

\* the tags tried on opening fences
Tags == { <<"r">>, <<"R">>,
          <<"p","y","t","h","o","n">>, <<"P","y","t","h","o","n">>,
          <<"P","Y","T","H","O","N">>, <<"p","Y","t","h","o","n">>,
          <<"j","s">> }

LineText(kind, t) ==
    CASE kind = "open"    -> FENCE \o t
      [] kind = "fence"   -> FENCE
      [] kind = "comment" -> << "#", " ", "y" >>
      [] kind = "hash"    -> << "#" >>
      [] kind = "stmt"    -> << "x" >>
      [] kind = "blank"   -> << >>

FileText(t, ls) == Flatten([i \in 1..Len(ls) |-> LineText(ls[i], t) \o << "\n" >>])

LineSeqs == UNION {[1..n -> LineKinds] : n \in 0..MaxLines}

NoFile == [readable |-> FALSE, text |-> << >>]
NoResult == [ret |-> << >>, warned |-> FALSE, raised |-> FALSE]
NoPage == [page_title |-> << >>, cards |-> << >>, modals |-> << >>, prism |-> << >>]

IdleExtract ==
    /\ tag = <<"r">> /\ lines = << >> /\ md_file = NoFile
    /\ description = NoResult /\ code = NoResult /\ pc = "idle"

IdleDetect == dname = << >> /\ lang = << >> /\ dpc = "idle"

IdleGallery ==
    /\ dir_name = << >> /\ dir_exists = FALSE /\ files = {} /\ unreadable = {}
    /\ listing = << >> /\ items = << >> /\ html_content = NoPage
    /\ pages_dir = FALSE /\ pages = {} /\ diag = << >> /\ gpc = "idle"

\* a readable file of every explored text, and a file that open() fails on
InitExtract ==
    /\ \/ /\ tag \in Tags
          /\ lines \in LineSeqs
          /\ md_file = [readable |-> TRUE, text |-> FileText(tag, lines)]
       \/ /\ tag = <<"r">>
          /\ lines = << >>
          /\ md_file = NoFile
    /\ description = NoResult
    /\ code = NoResult
    /\ pc = "start"
    /\ IdleDetect /\ IdleGallery

\* scan_directory's calls, in its order (lines 99-100)
ExtractDescription ==
    /\ pc = "start"
    /\ description' = extract_description_from_md(md_file)
    /\ pc' = "description"
    /\ UNCHANGED << tag, lines, md_file, code, detectVars, galleryVars >>

ExtractCode ==
    /\ pc = "description"
    /\ ~description.raised
    /\ code' = extract_code_from_md(md_file)
    /\ pc' = "done"
    /\ UNCHANGED << tag, lines, md_file, description, detectVars, galleryVars >>

NextExtract == ExtractDescription \/ ExtractCode

SpecExtract == InitExtract /\ [][NextExtract]_vars

(***************************************************************************)
(* The fenced block as the specification describes it, read off the lines  *)
(* of the file: the first opening fence with a recognized tag, closed by   *)
(* the first bare fence line after it.                                     *)
(***************************************************************************)
FourTags == { <<"r">>, <<"R">>,
              <<"p","y","t","h","o","n">>, <<"P","y","t","h","o","n">> }

\* every case variant of r and of python among the tags explored
CaseVariantTags == FourTags \cup { <<"P","Y","T","H","O","N">>, <<"p","Y","t","h","o","n">> }

OpenLines(ls) == {i \in 1..Len(ls) : ls[i] = "open"}
ClosersAfter(ls, i) == {j \in (i + 1)..Len(ls) : ls[j] = "fence"}

HasBlock(t, ls) ==
    /\ t \in FourTags
    /\ OpenLines(ls) # {}
    /\ ClosersAfter(ls, Min(OpenLines(ls))) # {}

BlockBody(ls) ==
    SubSeq(ls, Min(OpenLines(ls)) + 1, Min(ClosersAfter(ls, Min(OpenLines(ls)))) - 1)

BodyText(t, body) ==
    Flatten([i \in 1..Len(body) |->
                LineText(body[i], t) \o (IF i < Len(body) THEN << "\n" >> ELSE << >>)])

FirstLineIsComment(t, ls) ==
    /\ HasBlock(t, ls)
    /\ BlockBody(ls) # << >>
    /\ LineText(BlockBody(ls)[1], t) # << >>
    /\ Head(LineText(BlockBody(ls)[1], t)) = "#"

\* a file that is one closed block whose first line is the comment "# y"
SingleBlock(ls) ==
    /\ Len(ls) >= 3
    /\ ls[1] = "open"
    /\ ls[2] = "comment"
    /\ ls[Len(ls)] = "fence"
    /\ \A i \in 3..(Len(ls) - 1) : ls[i] \in {"comment", "stmt", "blank"}

\* C3: extract_description_from_md returns the first line of the first
\* recognized fenced block, '#' and surrounding whitespace stripped, when
\* that line begins with '#', and the fallback string in every other case.
C3_FirstLineOrFallback ==
    (pc # "start" /\ HasBlock(tag, lines)) =>
        description.ret =
            IF FirstLineIsComment(tag, lines)
            THEN Strip(Tail(LineText(BlockBody(lines)[1], tag)))
            ELSE FALLBACK

\* C4: extract_code_from_md returns exactly the trimmed body of the first
\* recognized fenced block (the empty string for an empty block), never
\* text of a later block or from outside the block.
C4_BodyOfFirstBlock ==
    (pc = "done" /\ HasBlock(tag, lines)) =>
        code.ret = Strip(BodyText(tag, BlockBody(lines)))

\* C5: for a file without a matching fenced block (no recognized opening
\* fence that is later closed) extract_code_from_md returns the empty
\* string and extract_description_from_md returns the fallback string.
C5_NoBlockDefaults ==
    (pc = "done" /\ md_file.readable /\ ~HasBlock(tag, lines)) =>
        /\ code.ret = << >>
        /\ description.ret = FALLBACK

\* C6 (as claimed): every case variant of r and python opens a block that
\* both operations recognize, and no other tag does.
C6_CaseInsensitiveTags ==
    (pc = "done" /\ md_file.readable) =>
        /\ (tag \in CaseVariantTags /\ SingleBlock(lines)) =>
              /\ description.ret = << "y" >>
              /\ code.ret = Strip(BodyText(tag, BlockBody(lines)))
        /\ (tag \notin CaseVariantTags) =>
              /\ description.ret = FALLBACK
              /\ code.ret = << >>

\* C6 (amended): exactly the four spellings r, R, python, Python open a
\* block that both operations recognize; a block opened with any other tag,
\* other case variants included, is recognized by neither.
C6_FourSpellings ==
    (pc = "done" /\ md_file.readable) =>
        /\ (tag \in FourTags /\ SingleBlock(lines)) =>
              /\ description.ret = << "y" >>
              /\ code.ret = Strip(BodyText(tag, SubSeq(lines, 2, Len(lines) - 1)))
        /\ (tag \notin FourTags) =>
              /\ description.ret = FALLBACK
              /\ code.ret = << >>

C6_Witness ==
    /\ pc = "done"
    /\ tag = <<"P","y","t","h","o","n">>
    /\ lines = << "open", "comment", "stmt", "fence" >>
    /\ description.ret = << "y" >>
    /\ code.ret = << "#", " ", "y", "\n", "x" >>

(***************************************************************************)
(* detect_language                                                         *)
(***************************************************************************)
UpperCase == << "A","B","C","D","E","F","G","H","I","J","K","L","M",
                "N","O","P","Q","R","S","T","U","V","W","X","Y","Z" >>
LowerCase == << "a","b","c","d","e","f","g","h","i","j","k","l","m",
                "n","o","p","q","r","s","t","u","v","w","x","y","z" >>

\* str.lower()
LowerChar(ch) ==
    IF \E n \in 1..Len(UpperCase) : UpperCase[n] = ch
    THEN LowerCase[CHOOSE n \in 1..Len(UpperCase) : UpperCase[n] = ch]
    ELSE ch
Lower(s) == [i \in 1..Len(s) |-> LowerChar(s[i])]

\* pat in s
Contains(s, pat) == \E i \in 1..(Len(s) + 1) : StartsWithAt(s, i, pat)

R_CODE  == << "r", " ", "c", "o", "d", "e" >>
R_DCODE == << "r", "-", "c", "o", "d", "e" >>
PYTHON  == << "p", "y", "t", "h", "o", "n" >>
JAVASCRIPT == << "j", "a", "v", "a", "s", "c", "r", "i", "p", "t" >>
JS      == << "j", "s" >>

LANG_R      == << <<"R">>, <<"r">> >>
LANG_PYTHON == << <<"P","y","t","h","o","n">>, PYTHON >>
LANG_JS     == << <<"J","a","v","a","S","c","r","i","p","t">>, JAVASCRIPT >>
LANG_CODE   == << <<"C","o","d","e">>, <<"p","l","a","i","n","t","e","x","t">> >>

detect_language_python_first(d) ==
    LET dir_lower == Lower(d)
    IN  IF Contains(dir_lower, PYTHON) THEN LANG_PYTHON
        ELSE IF Contains(dir_lower, R_CODE) \/ Contains(dir_lower, R_DCODE) THEN LANG_R
        ELSE IF Contains(dir_lower, JAVASCRIPT) \/ Contains(dir_lower, JS) THEN LANG_JS
        ELSE LANG_CODE

detect_language(d) ==
    LET dir_lower == Lower(d)
    IN  IF Contains(dir_lower, R_CODE) \/ Contains(dir_lower, R_DCODE) THEN LANG_R
        ELSE IF Contains(dir_lower, PYTHON) THEN LANG_PYTHON
        ELSE IF Contains(dir_lower, JAVASCRIPT) \/ Contains(dir_lower, JS) THEN LANG_JS
        ELSE LANG_CODE

\* the pieces category names are composed of
NameTokens == { <<"R"," ","c","o","d","e">>, <<"r","-","C","O","D","E">>,
                <<"P","y","t","h","o","n">>, <<"P","Y","T","H","O","N">>,
                <<" ","c","o","d","e">>, <<"J","a","v","a","S","c","r","i","p","t">>,
                <<"j","s">>, <<"J","S">>, <<"F","o","o">>, <<"r">>, <<"-">>,
                <<"O","t","h","e","r">> }

DirNames == {Flatten(ts) : ts \in UNION {[1..n -> NameTokens] : n \in 0..MaxNameTokens}}

InitDetect ==
    /\ dname \in DirNames
    /\ lang = << >>
    /\ dpc = "start"
    /\ IdleExtract /\ IdleGallery

DetectLanguage ==
    /\ dpc = "start"
    /\ lang' = detect_language(dname)
    /\ dpc' = "done"
    /\ UNCHANGED << dname, extractVars, galleryVars >>

NextDetect == DetectLanguage

SpecDetect == InitDetect /\ [][NextDetect]_vars

\* the two characters are the same letter, whatever their case
SameLetter(a, b) ==
    \/ a = b
    \/ \E n \in 1..Len(UpperCase) : {a, b} = {UpperCase[n], LowerCase[n]}

\* s holds the lower-case word w somewhere, in any mix of cases
HoldsWord(s, w) ==
    \E u \in 0..(Len(s) - Len(w)) : \A k \in 1..Len(w) : SameLetter(s[u + k], w[k])

\* C7: detect_language maps a category name, case-insensitively, by the
\* substring rules in their order: "r code" or "r-code" gives (R, r), else
\* "python" gives (Python, python), else "javascript" or "js" gives
\* (JavaScript, javascript), anything else (Code, plaintext); "R code",
\* "Python code" and "Foo" map to their pairs.
C7_DetectLanguageRules ==
    dpc = "done" =>
        /\ lang \in { << <<"R">>, <<"r">> >>,
                      << <<"P","y","t","h","o","n">>, <<"p","y","t","h","o","n">> >>,
                      << <<"J","a","v","a","S","c","r","i","p","t">>,
                         <<"j","a","v","a","s","c","r","i","p","t">> >>,
                      << <<"C","o","d","e">>, <<"p","l","a","i","n","t","e","x","t">> >> }
        /\ (lang[1] = <<"R">>) <=>
              (HoldsWord(dname, <<"r"," ","c","o","d","e">>)
                  \/ HoldsWord(dname, <<"r","-","c","o","d","e">>))
        /\ (lang[1] = <<"P","y","t","h","o","n">>) <=>
              /\ lang[1] # <<"R">>
              /\ HoldsWord(dname, <<"p","y","t","h","o","n">>)
        /\ (lang[1] = <<"J","a","v","a","S","c","r","i","p","t">>) <=>
              /\ ~HoldsWord(dname, <<"r"," ","c","o","d","e">>)
              /\ ~HoldsWord(dname, <<"r","-","c","o","d","e">>)
              /\ ~HoldsWord(dname, <<"p","y","t","h","o","n">>)
              /\ (HoldsWord(dname, <<"j","a","v","a","s","c","r","i","p","t">>)
                     \/ HoldsWord(dname, <<"j","s">>))
        /\ (dname = <<"R"," ","c","o","d","e">>) => lang[2] = <<"r">>
        /\ (dname = <<"P","y","t","h","o","n"," ","c","o","d","e">>)
              => lang[2] = <<"p","y","t","h","o","n">>
        /\ (dname = <<"F","o","o">>)
              => lang = << <<"C","o","d","e">>, <<"p","l","a","i","n","t","e","x","t">> >>

\* a name holding both "r code" and "python": the first rule wins
C7_Witness ==
    /\ dpc = "done"
    /\ dname = <<"P","y","t","h","o","n","R"," ","c","o","d","e">>
    /\ lang = << <<"R">>, <<"r">> >>

(***************************************************************************)
(* The category directory, scan_directory, generate_html_content and       *)
(* generate_page.                                                          *)
(***************************************************************************)
DOT_MD  == << ".", "m", "d" >>
DOT_PNG == << ".", "p", "n", "g" >>
DOT_HTML == << ".", "h", "t", "m", "l" >>
IMG_PREFIX == << ".", ".", "/", "i", "m", "g", "/" >>
GALLERY_SUFFIX == << " ", "C", "o", "d", "e", " ", "G", "a", "l", "l", "e", "r", "y" >>
CODE_SUFFIX == << " ", "C", "o", "d", "e" >>
PRISM_URL == << "prism-" >>

\* the base names and the categories explored
BaseNames == { <<"a">>, <<"a", "-", "b">>, <<"b">> }
Categories == { <<"R"," ","c","o","d","e">>, <<"P","y","t","h","o","n"," ","c","o","d","e">> }

FileNames == {b \o DOT_MD : b \in BaseNames} \cup {b \o DOT_PNG : b \in BaseNames}
Directories == {fs \in SUBSET FileNames : Cardinality(fs) <= MaxFiles}

EndsWith(s, suf) ==
    /\ Len(s) >= Len(suf)
    /\ StartsWithAt(s, Len(s) - Len(suf) + 1, suf)

\* target_dir.glob('*.md'): the names of the directory that match, in any order
Glob(fs) == {f \in fs : EndsWith(f, DOT_MD)}
Orders(S) == {q \in [1..Cardinality(S) -> S] : \A i, j \in 1..Cardinality(S) : i # j => q[i] # q[j]}

\* PurePath.stem: the name up to its last dot, when that dot is neither the
\* first nor the last character
Stem(name) ==
    LET dots == {i \in 1..Len(name) : name[i] = "."}
    IN  IF dots # {} /\ 1 < Max(dots) /\ Max(dots) < Len(name)
        THEN SubSeq(name, 1, Max(dots) - 1)
        ELSE name

\* code points of the characters of file names
Ord(ch) ==
    CASE ch = "-" -> 45
      [] ch = "." -> 46
      [] ch = "a" -> 97
      [] ch = "b" -> 98
      [] ch = "d" -> 100
      [] ch = "g" -> 103
      [] ch = "m" -> 109
      [] ch = "n" -> 110
      [] ch = "p" -> 112

\* str.__lt__: paths of one directory compare as their names do
StrLess(a, b) ==
    \E k \in 1..(Len(a) + 1) :
        /\ k <= Len(b)
        /\ \A i \in 1..(k - 1) : a[i] = b[i]
        /\ (k = Len(a) + 1 \/ Ord(a[k]) < Ord(b[k]))

Insert(x, s) ==
    LET k == Cardinality({i \in 1..Len(s) : ~StrLess(x, s[i])})
    IN  SubSeq(s, 1, k) \o << x >> \o SubSeq(s, k + 1, Len(s))

\* sorted(...)
sorted_missing(s) == s
RECURSIVE sorted(_)
sorted(s) ==
    IF s = << >> THEN << >>
    ELSE Insert(s[Len(s)], sorted(SubSeq(s, 1, Len(s) - 1)))

\* the text of every readable documentation file of the directory
SampleDoc == FileText(<<"R">>, << "open", "comment", "stmt", "fence" >>)

\* what open() and read() give for a documentation file of the directory
MdFile(m) ==
    IF m \in unreadable THEN NoFile ELSE [readable |-> TRUE, text |-> SampleDoc]

\* png_file.exists()
HasImage(md) == (Stem(md) \o DOT_PNG) \in files

\* lines 95-100 for one documentation file
Extracted(md) ==
    [title |-> Stem(md),
     png |-> Stem(md) \o DOT_PNG,
     desc |-> extract_description_from_md(MdFile(md)),
     body |-> extract_code_from_md(MdFile(md))]
ExtractAll(mds) == [i \in 1..Len(mds) |-> Extracted(mds[i])]

\* lines 102-107
ItemOf(dn, e) ==
    [title |-> e.title,
     description |-> e.desc.ret,
     image_path |-> IMG_PREFIX \o dn \o << "/" >> \o e.png,
     code |-> e.body.ret]

Warnings(e) ==
    (IF e.desc.warned THEN << "unreadable" >> ELSE << >>)
        \o (IF e.body.warned THEN << "unreadable" >> ELSE << >>)

\* the result: the items returned, the warnings printed, whether an
\* exception left the function
ScanResult(dn, es) ==
    [items |-> IF \E i \in 1..Len(es) : es[i].desc.raised \/ es[i].body.raised
               THEN << >>
               ELSE [i \in 1..Len(es) |-> ItemOf(dn, es[i])],
     diag |-> Flatten([i \in 1..Len(es) |-> Warnings(es[i])]),
     raised |-> \E i \in 1..Len(es) : es[i].desc.raised \/ es[i].body.raised]

\* order is the order glob yields the names in
scan_directory_without_image_test(dn, order) ==
    IF ~dir_exists
    THEN [items |-> << >>, diag |-> << "dir_missing" >>, raised |-> FALSE]
    ELSE ScanResult(dn, ExtractAll(sorted(order)))

scan_directory(dn, order) ==
    IF ~dir_exists
    THEN [items |-> << >>, diag |-> << "dir_missing" >>, raised |-> FALSE]
    ELSE ScanResult(dn, ExtractAll(SelectSeq(sorted(order), HasImage)))

\* f"modal-{i}"
ModalId(i) == [prefix |-> "modal-", n |-> i]

\* the first loop: one card per item, numbered from 1
Cards(its) ==
    [i \in 1..Len(its) |->
        [src |-> its[i].image_path, alt |-> its[i].title,
         onclick |-> ModalId(i), title |-> its[i].title,
         description |-> its[i].description]]

\* the second loop: one modal per item, numbered from start
Modals(language, its, start) ==
    [i \in 1..Len(its) |->
        [id |-> ModalId(i - 1 + start), close |-> ModalId(i - 1 + start),
         heading |-> its[i].title \o << " ", "-", " " >> \o language[1] \o CODE_SUFFIX,
         language |-> language[2],
         code |-> its[i].code,
         src |-> its[i].image_path, alt |-> its[i].title]]

\* the page: its title, the cards and the modals in document order, the
\* component the highlighter loads
Page(language, its, start) ==
    [page_title |-> language[1] \o GALLERY_SUFFIX,
     cards |-> Cards(its),
     modals |-> Modals(language, its, start),
     prism |-> PRISM_URL \o language[2]]

generate_html_content_from_zero(dn, its) == Page(detect_language(dn), its, 0)
generate_html_content(dn, its) == Page(detect_language(dn), its, 1)

\* str.replace(' ', '-')
Replace(s, a, b) == [i \in 1..Len(s) |-> IF s[i] = a THEN b ELSE s[i]]

\* the file name generate_page derives when none is given
OutputName(dn) == Replace(Lower(dn), " ", "-") \o DOT_HTML

\* open(output_path, 'w') and write
WriteFile(dir, name, content) ==
    {f \in dir : f.name # name} \cup {[name |-> name, content |-> content]}

\* lines 279-287
WritePage(dn, scan, html) ==
    [items |-> scan.items,
     html_content |-> html,
     pages_dir |-> TRUE,
     pages |-> WriteFile(pages, OutputName(dn), html),
     diag |-> scan.diag \o << "generated", "count" >>,
     raised |-> FALSE]

\* lines 268-287 on the result of the scan
Publish(dn, scan) ==
    IF scan.raised
    THEN [items |-> items, html_content |-> html_content, pages_dir |-> pages_dir,
          pages |-> pages, diag |-> scan.diag, raised |-> TRUE]
    ELSE IF scan.items = << >>
    THEN [items |-> scan.items, html_content |-> html_content,
          pages_dir |-> pages_dir, pages |-> pages,
          diag |-> scan.diag \o << "no_items" >>, raised |-> FALSE]
    ELSE WritePage(dn, scan, generate_html_content(dn, scan.items))

\* the state generate_page leaves: the items scanned, the page rendered,
\* the output directory and its files, the lines printed
generate_page_mkdir_first(dn, order) ==
    [Publish(dn, scan_directory(dn, order)) EXCEPT !.pages_dir = TRUE]

generate_page(dn, order) == Publish(dn, scan_directory(dn, order))

\* a page left by an earlier run
StalePage == [page_title |-> << "o", "l", "d" >>, cards |-> << >>,
              modals |-> << >>, prism |-> << >>]

InitGallery ==
    /\ dir_name \in Categories
    /\ dir_exists \in BOOLEAN
    /\ files \in (IF dir_exists THEN Directories ELSE {{}})
    /\ unreadable \in SUBSET Glob(files)
    /\ pages_dir \in BOOLEAN
    /\ pages \in (IF pages_dir
                  THEN {{}, {[name |-> OutputName(dir_name), content |-> StalePage]}}
                  ELSE {{}})
    /\ listing = << >>
    /\ items = << >>
    /\ html_content = NoPage
    /\ diag = << >>
    /\ gpc = "start"
    /\ IdleExtract /\ IdleDetect

\* a call of scan_directory
ScanDirectory ==
    /\ gpc = "start"
    /\ \E order \in Orders(Glob(files)) :
          \E scan \in {scan_directory(dir_name, order)} :
              /\ listing' = order
              /\ items' = scan.items
              /\ diag' = diag \o scan.diag
              /\ gpc' = IF scan.raised THEN "raised" ELSE "scanned"
    /\ UNCHANGED << dir_name, dir_exists, files, unreadable, html_content,
                    pages_dir, pages, extractVars, detectVars >>

\* a call of generate_html_content on the items scanned
GenerateHtmlContent ==
    /\ gpc = "scanned"
    /\ html_content' = generate_html_content(dir_name, items)
    /\ gpc' = "rendered"
    /\ UNCHANGED << dir_name, dir_exists, files, unreadable, listing, items,
                    pages_dir, pages, diag, extractVars, detectVars >>

\* a call of generate_page
GeneratePage ==
    /\ gpc = "start"
    /\ \E order \in Orders(Glob(files)) :
          \E run \in {generate_page(dir_name, order)} :
              /\ listing' = order
              /\ items' = run.items
              /\ html_content' = run.html_content
              /\ pages_dir' = run.pages_dir
              /\ pages' = run.pages
              /\ diag' = diag \o run.diag
              /\ gpc' = IF run.raised THEN "raised" ELSE "done"
    /\ UNCHANGED << dir_name, dir_exists, files, unreadable, extractVars, detectVars >>

NextGallery == ScanDirectory \/ GenerateHtmlContent \/ GeneratePage

Spec == InitGallery /\ [][NextGallery]_vars

(***************************************************************************)
(* Properties of the scan and of the page.                                 *)
(***************************************************************************)
\* the base names X with both X.md and X.png in the directory
Pairs == {b \in BaseNames : (b \o DOT_MD) \in files /\ (b \o DOT_PNG) \in files}
Scanned == gpc \in {"scanned", "rendered", "done"}
Rendered == gpc \in {"rendered", "done"}
OutputPage == [name |-> OutputName(dir_name), content |-> html_content]

\* C1: scan_directory returns an item titled X if and only if X.md and
\* X.png both exist in the directory; a documentation file without an image
\* gives no item and no error, an image without documentation gives no item.
C1_ItemIffPair ==
    /\ gpc # "raised"
    /\ Scanned =>
          /\ {items[k].title : k \in 1..Len(items)} = Pairs
          /\ Len(items) = Cardinality(Pairs)

C1_Witness ==
    /\ gpc = "scanned"
    /\ files = { <<"a">> \o DOT_MD, <<"b">> \o DOT_MD, <<"a">> \o DOT_PNG, <<"a","-","b">> \o DOT_PNG }
    /\ Len(items) = 1
    /\ items[1].title = <<"a">>

\* C2 (as claimed): the items, the cards and the detail views are in the
\* lexicographic order of the documentation files' base names.
C2_BaseNameOrder ==
    Scanned =>
        \A i, j \in 1..Len(items) : i < j => StrLess(items[i].title, items[j].title)

\* C2 (amended): the items are in the lexicographic (code point) order of
\* the documentation files' full names, extension included, whatever order
\* the directory is enumerated in, and the cards and the detail views of the
\* page are in the order of the items.
C2_FileNameOrder ==
    /\ Scanned =>
          \A i, j \in 1..Len(items) :
              i < j => StrLess(items[i].title \o DOT_MD, items[j].title \o DOT_MD)
    /\ Rendered =>
          /\ Len(html_content.cards) = Len(items)
          /\ Len(html_content.modals) = Len(items)
          /\ \A k \in 1..Len(items) :
                /\ html_content.cards[k].title = items[k].title
                /\ html_content.modals[k].alt = items[k].title

\* glob yields a.md before a-b.md, the page shows a-b before a
C2_Witness ==
    /\ gpc = "rendered"
    /\ Len(listing) = 2
    /\ listing[1] = <<"a">> \o DOT_MD
    /\ Len(html_content.cards) = 2
    /\ html_content.cards[1].title = <<"a", "-", "b">>
    /\ html_content.cards[2].title = <<"a">>

\* C8: generate_page writes the page file if and only if the scanned item
\* list is non-empty; with the directory missing or without any pair it
\* returns normally, prints a diagnostic and leaves the output directory
\* and its files as they were.
C8_PageIffItems ==
    [][(gpc = "start" /\ gpc' # "scanned") =>
          /\ gpc' = "done"
          /\ (items' = << >>) <=> (~dir_exists \/ Pairs = {})
          /\ (items' # << >>) =>
                /\ pages_dir'
                /\ OutputPage' \in pages'
                /\ Len(html_content'.cards) = Len(items')
          /\ (items' = << >>) =>
                /\ pages_dir' = pages_dir
                /\ pages' = pages
                /\ diag' # << >>
                /\ diag'[Len(diag')] = "no_items"]_vars

\* documentation without image in an existing directory: nothing is
\* written, the stale page stays
C8_Witness ==
    /\ gpc = "done"
    /\ dir_exists
    /\ Glob(files) # {}
    /\ items = << >>
    /\ pages = {[name |-> OutputName(dir_name), content |-> StalePage]}
    /\ diag = << "no_items" >>

\* C9: for n items the page has n cards and n detail views; the k-th card
\* opens modal-k, the k-th detail view is modal-k and shows the title, code
\* and image of the k-th item; the identifiers are exactly 1..n.
C9_CardsAndModals ==
    Rendered =>
        /\ Len(html_content.cards) = Len(items)
        /\ Len(html_content.modals) = Len(items)
        /\ \A k \in 1..Len(items) :
              /\ html_content.cards[k].onclick = [prefix |-> "modal-", n |-> k]
              /\ html_content.modals[k].id = [prefix |-> "modal-", n |-> k]
              /\ html_content.modals[k].close = [prefix |-> "modal-", n |-> k]
              /\ html_content.modals[k].alt = items[k].title
              /\ SubSeq(html_content.modals[k].heading, 1, Len(items[k].title))
                    = items[k].title
              /\ html_content.modals[k].code = items[k].code
              /\ html_content.modals[k].src = items[k].image_path
              /\ html_content.cards[k].src = items[k].image_path
        /\ {html_content.modals[k].id.n : k \in 1..Len(items)} = 1..Len(items)

C9_Witness ==
    /\ gpc = "rendered"
    /\ Len(items) = 2
    /\ items[1].code # items[2].code
    /\ html_content.cards[2].onclick.n = 2
    /\ html_content.modals[2].id.n = 2
    /\ html_content.modals[2].code = items[2].code

\* C10: an unreadable documentation file with a sibling image makes no
\* extraction raise: its item is in the scan result with the fallback
\* description and empty code, the other files are processed, and the page
\* is generated.
C10_UnreadableFallsBack ==
    /\ gpc # "raised"
    /\ Scanned =>
          /\ Len(items) = Cardinality(Pairs)
          /\ \A b \in Pairs : \E k \in 1..Len(items) :
                /\ items[k].title = b
                /\ (b \o DOT_MD) \in unreadable =>
                      /\ items[k].description = << "U+4EE3", "U+7801", "U+793A", "U+4F8B" >>
                      /\ items[k].code = << >>
                /\ (b \o DOT_MD) \notin unreadable =>
                      /\ items[k].description = << "y" >>
                      /\ items[k].code = << "#", " ", "y", "\n", "x" >>
    /\ (gpc = "done" /\ Pairs # {}) =>
          /\ OutputPage \in pages
          /\ Len(html_content.cards) = Cardinality(Pairs)

C10_Witness ==
    /\ gpc = "done"
    /\ \E b \in Pairs : (b \o DOT_MD) \in unreadable
    /\ \E b \in Pairs : (b \o DOT_MD) \notin unreadable
    /\ OutputPage \in pages
    /\ Len(html_content.cards) = 2
    /\ Len(diag) = 4

====
